---- MODULE Spec2Model ----
(***************************************************************************)
(* Model of wg-quic-differentiator (src/wg-quic-differentiator/src/main.rs) *)
(*                                                                         *)
(* The proxy has one listener (the loop of main) and one spawned task per  *)
(* forwarding session.  The registry is `connections`, a map from          *)
(* (client address, packet type) to the sender half of the session's       *)
(* channel, guarded by one tokio Mutex.                                     *)
(*                                                                         *)
(* Three specifications are defined:                                       *)
(*   SpecClassify  the pure function determine_packet_type on bounded      *)
(*                 byte buffers;                                           *)
(*   Spec          the listener and the session tasks, datagrams of two    *)
(*                 clients and both packet types (FairSpec adds the        *)
(*                 fairness of the FIFO Mutex);                            *)
(*   SpecBurst     the same listener and tasks under a longer run of       *)
(*                 datagrams of one key, which fills a session's channel   *)
(*                 (FairSpecBurst adds the fairness of the scheduler).     *)
(***************************************************************************)
EXTENDS Integers, Sequences, FiniteSets, TLC

(***************************************************************************)
(* Bounds of the model.                                                    *)
(***************************************************************************)
\* Datagrams the listener receives in one run (also bounds the sessions).
MaxRecv == 2
\* Seconds that pass in one step of the clock.
TickSecs == 15
\* Capacity of a session's channel, scaled down from mpsc::channel(100).
ChannelCapacity == 2
\* Classifier inputs: header bytes range over 0..MaxByte and two outliers.
MaxByte == 5
\* Datagrams of one burst: a run in which one client sends datagrams of one
\* packet type only (specification SpecBurst).
MaxBurst == 4

(***************************************************************************)
(* Program constants.                                                      *)
(***************************************************************************)
WIREGUARD_SERVER_ADDR == "localhost:51820"
QUIC_SERVER_ADDR == "localhost:8443"
CONNECTION_TIMEOUT_SECS == 30

PacketType == {"Wireguard", "Quic"}

\* Client socket addresses (SocketAddr values), compared by value.
Addrs == {"1.2.3.4:5000", "5.6.7.8:6000"}

None == 0

(***************************************************************************)
(* The classifier.                                                         *)
(***************************************************************************)
\* The message the match on buf[0] logs for a buffer taken as Wireguard.
wireguard_log_message(buf) ==
    IF buf[1] = 1 /\ Len(buf) = 148 THEN "Handshake Initiation"
    ELSE IF buf[1] = 2 /\ Len(buf) = 92 THEN "Handshake Response"
    ELSE IF buf[1] = 3 /\ Len(buf) = 64 THEN "Cookie Reply"
    ELSE IF buf[1] = 4 /\ Len(buf) >= 32 THEN "Data"
    ELSE "Unknown type"

\* Mutant: the lower bound on buf[0] is dropped (the source comment's
\* "0x00 to 0x04").
determine_packet_type_zero(buf, source_addr) ==
    IF /\ Len(buf) >= 4
       /\ buf[1] <= 4
       /\ buf[2] = 0
       /\ buf[3] = 0
       /\ buf[4] = 0
    THEN "Wireguard"
    ELSE "Quic"

\* Mutant: a header whose length matches no known message is not taken as
\* Wireguard.
determine_packet_type_len(buf, source_addr) ==
    IF /\ Len(buf) >= 4
       /\ buf[1] <= 4
       /\ buf[1] > 0
       /\ buf[2] = 0
       /\ buf[3] = 0
       /\ buf[4] = 0
       /\ wireguard_log_message(buf) # "Unknown type"
    THEN "Wireguard"
    ELSE "Quic"

\* buf is a sequence of bytes (index 1 is the source's buf[0]).
determine_packet_type(buf, source_addr) ==
    IF /\ Len(buf) >= 4
       /\ buf[1] <= 4
       /\ buf[1] > 0
       /\ buf[2] = 0
       /\ buf[3] = 0
       /\ buf[4] = 0
    THEN "Wireguard"
    ELSE "Quic"

\* What determine_packet_type logs: "" when nothing is logged.
determine_packet_type_log(buf) ==
    IF determine_packet_type(buf, "") = "Wireguard"
    THEN wireguard_log_message(buf)
    ELSE ""

\* The match on packet_type that selects the backend address.
forward_address_for(packet_type) ==
    IF packet_type = "Wireguard" THEN WIREGUARD_SERVER_ADDR
    ELSE QUIC_SERVER_ADDR

(***************************************************************************)
(* Inputs of the classifier specification.                                 *)
(***************************************************************************)
ByteVals == (0..MaxByte) \cup {16, 255}

\* Total lengths tried for a buffer with a full 4-byte header.
TotalLens == {4, 5, 32, 64, 92, 148}

FillVals == {0, 255}

Pad(head, n, fill) == [i \in 1..n |-> IF i <= Len(head) THEN head[i] ELSE fill]

ShortBuffers == UNION {[1..n -> ByteVals] : n \in 0..3}

LongBuffers ==
    {Pad(h, n, f) : h \in [1..4 -> ByteVals], n \in TotalLens, f \in FillVals}

ClassifyInputs == ShortBuffers \cup LongBuffers

\* Datagrams the clients send to the proxy.
ProxyBufs == {<<1, 0, 0, 0>>, <<153, 0, 0, 0>>}

\* The client and the datagram of a burst.
BurstAddrs == {"1.2.3.4:5000"}
BurstBufs == {<<1, 0, 0, 0>>}

(***************************************************************************)
(* State.                                                                  *)
(***************************************************************************)
VARIABLES
    \* classifier specification: one call of determine_packet_type
    cbuf, caddr, ctag, clog, cpc,
    \* listener (main): position and locals
    lpc, addr, buf, packet_type, forward_address, sender, mainError,
    \* registry and its Mutex
    connections, lock,
    \* sessions: channel, forwarding socket and task of each session
    sessions,
    \* datagrams received so far; the last datagram sent on a forwarding
    \* socket and the last one sent on the client-facing socket
    recvCount, backendSent, clientSent,
    \* per key, the receipt number of the last datagram sent to a backend
    forwarded

classifyVars == <<cbuf, caddr, ctag, clog, cpc>>
listenerVars == <<lpc, addr, buf, packet_type, forward_address, sender, mainError>>
proxyVars == <<lpc, addr, buf, packet_type, forward_address, sender, mainError,
               connections, lock, sessions,
               recvCount, backendSent, clientSent, forwarded>>
vars == <<cbuf, caddr, ctag, clog, cpc,
          lpc, addr, buf, packet_type, forward_address, sender, mainError,
          connections, lock, sessions,
          recvCount, backendSent, clientSent, forwarded>>

SessionIds == 1..Len(sessions)

\* Nothing has been sent yet.
NoDatagram == [sid |-> None]

\* Mutant: sessions are keyed by the client address alone.
connection_key_addr(a, t) == <<a, "Quic">>

\* The key of the registry: the tuple (addr, packet_type).
connection_key(a, t) == <<a, t>>

\* Every key a datagram can have.
Keys == {connection_key(a, t) : a \in Addrs, t \in PacketType}

\* The HashMap as a function on the keys present.
EmptyMap == [k \in {} |-> None]

\* Mutant: the new sender is not stored.
connections_insert_lost(map, key, tx) == map

connections_insert(map, key, tx) ==
    [k \in (DOMAIN map) \cup {key} |-> IF k = key THEN tx ELSE map[k]]

\* Mutant: the removal does nothing.
connections_remove_noop(map, key) == map

connections_remove(map, key) ==
    [k \in (DOMAIN map) \ {key} |-> map[k]]

connections_get(map, key) ==
    IF key \in DOMAIN map THEN map[key] ELSE None

\* Mutant: the task removes the Quic key of its client.
SessionKey_quic(s) == connection_key(sessions[s].addr, "Quic")

\* The key a session task removes on exit: its captured (addr, packet_type).
SessionKey(s) == connection_key(sessions[s].addr, sessions[s].packet_type)

\* Mutant: the channel hands out the newest datagram first.
channel_send_front(queue, packet) == <<packet>> \o queue

\* sender.send(packet): the packet joins the end of the channel's buffer.
channel_send(queue, packet) == Append(queue, packet)

\* Mutant: the task drops rx when it leaves its loop.
RxAlive_loop(s) == sessions[s].pc \in {"creating", "loop"}

\* The receiver half of a session's channel exists until its owner drops it.
RxAlive(s) == sessions[s].pc \in {"creating", "loop", "cleanup", "removed"}

\* The listener's locals before a datagram is received.
NoLocals ==
    /\ addr = ""
    /\ buf = [id |-> 0, data |-> <<>>]
    /\ packet_type = "Quic"
    /\ forward_address = ""
    /\ sender = None

InitProxy ==
    /\ lpc = "recv"
    /\ NoLocals
    /\ mainError = ""
    /\ connections = EmptyMap
    /\ lock = "free"
    /\ sessions = <<>>
    /\ recvCount = 0
    /\ backendSent = NoDatagram
    /\ clientSent = NoDatagram
    /\ forwarded = [k \in Keys |-> 0]

InitClassifyIdle ==
    /\ cbuf = <<>>
    /\ caddr = ""
    /\ ctag = ""
    /\ clog = ""
    /\ cpc = "idle"

Init == InitProxy /\ InitClassifyIdle

(***************************************************************************)
(* Classifier specification: one call on an input from ClassifyInputs.     *)
(***************************************************************************)
InitClassify ==
    /\ InitProxy
    /\ cbuf \in ClassifyInputs
    /\ caddr \in Addrs
    /\ ctag = ""
    /\ clog = ""
    /\ cpc = "call"

Classify ==
    /\ cpc = "call"
    /\ ctag' = determine_packet_type(cbuf, caddr)
    /\ clog' = determine_packet_type_log(cbuf)
    /\ cpc' = "ret"
    /\ UNCHANGED <<cbuf, caddr>>
    /\ UNCHANGED proxyVars

NextClassify == Classify

SpecClassify == InitClassify /\ [][NextClassify]_vars

(***************************************************************************)
(* The proxy: listener.                                                    *)
(***************************************************************************)
\* The entry of a session whose channel has just been created: the listener
\* still owns rx and has no forwarding socket yet.  key is the key its
\* sender is inserted under; addr, packet_type and forward_address are the
\* task's captures, set when the task is spawned.  idle is the time the
\* sleep of the current loop iteration has run, quiet the time since the
\* task last relayed a reply or forwarded a queued datagram.
NewSession ==
    [key |-> connection_key(addr, packet_type),
     addr |-> "", packet_type |-> "", forward_address |-> "",
     sock |-> "none", pc |-> "creating", queue |-> <<>>,
     idle |-> 0, quiet |-> 0, exit |-> "none"]

\* The session the listener is creating (the newest one).
Creating == Len(sessions)

\* One iteration of the listener's loop ends: its locals go out of scope
\* (buf is overwritten by the next recv_from).
EndIteration ==
    /\ addr' = ""
    /\ buf' = [id |-> 0, data |-> <<>>]
    /\ packet_type' = "Quic"
    /\ forward_address' = ""
    /\ sender' = None
    /\ UNCHANGED mainError

\* main returns: the `?` operator propagates an io::Error out of main, the
\* runtime is shut down, every task is cancelled at its await point and the
\* registry is dropped with everything it holds.
ProcessExit(cause, failed) ==
    /\ lpc' = "exited"
    /\ mainError' = cause
    /\ sessions' = [s \in SessionIds |->
                      IF sessions[s].pc = "done" THEN sessions[s]
                      ELSE [sessions[s] EXCEPT
                              !.pc = "cancelled",
                              !.exit = IF s = failed THEN "error" ELSE @]]
    /\ connections' = EmptyMap
    /\ lock' = "free"
    /\ UNCHANGED <<addr, buf, packet_type, forward_address, sender>>
    /\ UNCHANGED <<recvCount, backendSent, forwarded, clientSent>>
    /\ UNCHANGED classifyVars

\* client_sock.recv_from(&mut buf).await? returns a datagram b from client a;
\* the listener classifies it and selects the backend address.
RecvFrom(a, b) ==
    /\ lpc = "recv"
    /\ addr' = a
    /\ buf' = [id |-> recvCount + 1, data |-> b]
    /\ packet_type' = determine_packet_type(b, a)
    /\ forward_address' = forward_address_for(determine_packet_type(b, a))
    /\ recvCount' = recvCount + 1
    /\ lpc' = "lookup"
    /\ UNCHANGED <<sender, mainError, connections, lock, sessions>>
    /\ UNCHANGED <<backendSent, forwarded, clientSent>>
    /\ UNCHANGED classifyVars

\* A datagram of any client and of either packet type arrives.
RecvFromOk ==
    /\ recvCount < MaxRecv
    /\ \E a \in Addrs, b \in ProxyBufs : RecvFrom(a, b)

\* A datagram of the burst arrives.
RecvFromBurst ==
    /\ recvCount < MaxBurst
    /\ \E a \in BurstAddrs, b \in BurstBufs : RecvFrom(a, b)

\* client_sock.recv_from(&mut buf).await? returns an error.
RecvFromErr ==
    /\ lpc = "recv"
    /\ ProcessExit("recv_from", None)

\* Mutant: the guard of the lookup is kept while the datagram is handed to
\* the session that was found.
Lookup_holding ==
    /\ lpc = "lookup"
    /\ lock = "free"
    /\ sender' = connections_get(connections, connection_key(addr, packet_type))
    /\ lpc' = IF connections_get(connections, connection_key(addr, packet_type)) # None
              THEN "enqueue" ELSE "insert"
    /\ lock' = IF connections_get(connections, connection_key(addr, packet_type)) # None
               THEN "main" ELSE "free"
    /\ UNCHANGED <<addr, buf, packet_type, forward_address, mainError>>
    /\ UNCHANGED <<connections, sessions>>
    /\ UNCHANGED <<recvCount, backendSent, forwarded, clientSent>>
    /\ UNCHANGED classifyVars

\* let sender = { lock; get(&(addr, packet_type)).cloned() }
Lookup ==
    /\ lpc = "lookup"
    /\ lock = "free"
    /\ sender' = connections_get(connections, connection_key(addr, packet_type))
    /\ lpc' = IF connections_get(connections, connection_key(addr, packet_type)) # None
              THEN "enqueue" ELSE "insert"
    /\ UNCHANGED <<addr, buf, packet_type, forward_address, mainError>>
    /\ UNCHANGED <<connections, lock, sessions>>
    /\ UNCHANGED <<recvCount, backendSent, forwarded, clientSent>>
    /\ UNCHANGED classifyVars

\* Mutant: the listener writes the datagram to the session's forwarding
\* socket itself.
EnqueueOk_direct ==
    /\ lpc = "enqueue"
    /\ RxAlive(sender)
    /\ backendSent' =
         [id |-> buf.id, data |-> buf.data, backend |-> sessions[sender].sock,
          sid |-> sender, by |-> "main"]
    /\ forwarded' = [forwarded EXCEPT ![sessions[sender].key] = buf.id]
    /\ lpc' = "recv"
    /\ EndIteration
    /\ UNCHANGED <<connections, lock, sessions>>
    /\ UNCHANGED <<recvCount, clientSent>>
    /\ UNCHANGED classifyVars

\* sender.send(packet).await succeeds: the channel has a free slot and its
\* receiver has not been dropped.  With a full channel the listener waits.
EnqueueOk ==
    /\ lpc = "enqueue"
    /\ RxAlive(sender)
    /\ Len(sessions[sender].queue) < ChannelCapacity
    /\ sessions' = [sessions EXCEPT ![sender].queue = channel_send(@, buf)]
    /\ lpc' = "recv"
    /\ EndIteration
    /\ UNCHANGED <<connections, lock>>
    /\ UNCHANGED <<recvCount, backendSent, forwarded, clientSent>>
    /\ UNCHANGED classifyVars

\* sender.send(packet).await fails: the receiver has been dropped.
EnqueueErr ==
    /\ lpc = "enqueue"
    /\ ~RxAlive(sender)
    /\ lpc' = "remove_failed"
    /\ UNCHANGED <<addr, buf, packet_type, forward_address, sender, mainError>>
    /\ UNCHANGED <<connections, lock, sessions>>
    /\ UNCHANGED <<recvCount, backendSent, forwarded, clientSent>>
    /\ UNCHANGED classifyVars

\* lock; remove(&(addr, packet_type)) after the failed send.
RemoveFailed ==
    /\ lpc = "remove_failed"
    /\ lock = "free"
    /\ connections' = connections_remove(connections, connection_key(addr, packet_type))
    /\ lpc' = "recv"
    /\ EndIteration
    /\ UNCHANGED <<lock, sessions>>
    /\ UNCHANGED <<recvCount, backendSent, forwarded, clientSent>>
    /\ UNCHANGED classifyVars

\* mpsc::channel(100); lock; insert((addr, packet_type), tx).  The guard
\* lives to the end of the else block, so the lock stays held.
Insert ==
    /\ lpc = "insert"
    /\ lock = "free"
    /\ sessions' = Append(sessions, NewSession)
    /\ connections' =
         connections_insert(connections, connection_key(addr, packet_type),
                            Len(sessions) + 1)
    /\ lock' = "main"
    /\ lpc' = "bind"
    /\ UNCHANGED <<addr, buf, packet_type, forward_address, sender, mainError>>
    /\ UNCHANGED <<recvCount, backendSent, forwarded, clientSent>>
    /\ UNCHANGED classifyVars

\* UdpSocket::bind("0.0.0.0:0").await?
BindOk ==
    /\ lpc = "bind"
    /\ sessions' = [sessions EXCEPT ![Creating].sock = "bound"]
    /\ lpc' = "connect"
    /\ UNCHANGED <<addr, buf, packet_type, forward_address, sender, mainError>>
    /\ UNCHANGED <<connections, lock>>
    /\ UNCHANGED <<recvCount, backendSent, forwarded, clientSent>>
    /\ UNCHANGED classifyVars

BindErr ==
    /\ lpc = "bind"
    /\ ProcessExit("bind", Creating)

\* forward_sock.connect(&forward_address).await?
ConnectOk ==
    /\ lpc = "connect"
    /\ sessions' = [sessions EXCEPT ![Creating].sock = forward_address]
    /\ lpc' = "send_first"
    /\ UNCHANGED <<addr, buf, packet_type, forward_address, sender, mainError>>
    /\ UNCHANGED <<connections, lock>>
    /\ UNCHANGED <<recvCount, backendSent, forwarded, clientSent>>
    /\ UNCHANGED classifyVars

ConnectErr ==
    /\ lpc = "connect"
    /\ ProcessExit("connect", Creating)

\* forward_sock.send(packet_data).await? : the listener sends the first
\* datagram itself.
SendFirstOk ==
    /\ lpc = "send_first"
    /\ backendSent' =
         [id |-> buf.id, data |-> buf.data, backend |-> sessions[Creating].sock,
          sid |-> Creating, by |-> "main"]
    /\ forwarded' = [forwarded EXCEPT ![sessions[Creating].key] = buf.id]
    /\ lpc' = "spawn"
    /\ UNCHANGED <<addr, buf, packet_type, forward_address, sender, mainError>>
    /\ UNCHANGED <<connections, lock, sessions>>
    /\ UNCHANGED <<recvCount, clientSent>>
    /\ UNCHANGED classifyVars

SendFirstErr ==
    /\ lpc = "send_first"
    /\ ProcessExit("send", Creating)

\* tokio::spawn(async move { ... }); the else block ends and drops the guard.
Spawn ==
    /\ lpc = "spawn"
    /\ sessions' = [sessions EXCEPT ![Creating].pc = "loop",
                                    ![Creating].idle = 0,
                                    ![Creating].quiet = 0,
                                    ![Creating].addr = addr,
                                    ![Creating].packet_type = packet_type,
                                    ![Creating].forward_address = forward_address]
    /\ lock' = "free"
    /\ lpc' = "recv"
    /\ EndIteration
    /\ UNCHANGED connections
    /\ UNCHANGED <<recvCount, backendSent, forwarded, clientSent>>
    /\ UNCHANGED classifyVars

(***************************************************************************)
(* The proxy: session tasks.                                               *)
(***************************************************************************)
\* Mutant: the reply goes to the client of the datagram the listener
\* handled last.
reply_destination_latest(s) == addr

\* The address of send_to: the addr the task captured when it was spawned.
reply_destination(s) == sessions[s].addr

\* Mutant: one sleep is created before the loop and polled in every
\* iteration.
restart_sleep_pinned(elapsed) == elapsed

\* A loop iteration begins: select! creates a new sleep of
\* CONNECTION_TIMEOUT_SECS.
restart_sleep(elapsed) == 0

\* Time advances by TickSecs on a timer that stops at the timeout.
advance(elapsed) ==
    IF elapsed + TickSecs >= CONNECTION_TIMEOUT_SECS
    THEN CONNECTION_TIMEOUT_SECS ELSE elapsed + TickSecs

\* The task leaves its loop (break).
LeaveLoop(s, why) ==
    sessions' = [sessions EXCEPT ![s].pc = "cleanup", ![s].exit = why,
                                 ![s].idle = 0, ![s].quiet = 0]

\* forward_sock.recv returns a reply and send_to relays it to the client.
BackendRecvOk(s) ==
    /\ lpc # "exited"
    /\ sessions[s].pc = "loop"
    /\ clientSent' = [to |-> reply_destination(s), sid |-> s]
    /\ sessions' = [sessions EXCEPT ![s].idle = restart_sleep(@), ![s].quiet = 0]
    /\ UNCHANGED listenerVars
    /\ UNCHANGED <<connections, lock, recvCount, backendSent, forwarded>>
    /\ UNCHANGED classifyVars

\* forward_sock.recv returns a reply and send_to fails.
BackendRecvSendErr(s) ==
    /\ lpc # "exited"
    /\ sessions[s].pc = "loop"
    /\ LeaveLoop(s, "error")
    /\ UNCHANGED listenerVars
    /\ UNCHANGED <<connections, lock, recvCount, backendSent, forwarded, clientSent>>
    /\ UNCHANGED classifyVars

\* forward_sock.recv returns an error.
BackendRecvErr(s) ==
    /\ lpc # "exited"
    /\ sessions[s].pc = "loop"
    /\ LeaveLoop(s, "error")
    /\ UNCHANGED listenerVars
    /\ UNCHANGED <<connections, lock, recvCount, backendSent, forwarded, clientSent>>
    /\ UNCHANGED classifyVars

\* rx.recv() yields a queued datagram and forward_sock.send forwards it.
QueueRecvOk(s) ==
    /\ lpc # "exited"
    /\ sessions[s].pc = "loop"
    /\ sessions[s].queue # <<>>
    /\ backendSent' =
         [id |-> Head(sessions[s].queue).id, data |-> Head(sessions[s].queue).data,
          backend |-> sessions[s].sock, sid |-> s, by |-> "task"]
    /\ forwarded' = [forwarded EXCEPT ![sessions[s].key] = Head(sessions[s].queue).id]
    /\ sessions' = [sessions EXCEPT ![s].queue = Tail(@),
                                    ![s].idle = restart_sleep(@), ![s].quiet = 0]
    /\ UNCHANGED listenerVars
    /\ UNCHANGED <<connections, lock, recvCount, clientSent>>
    /\ UNCHANGED classifyVars

\* rx.recv() yields a queued datagram and forward_sock.send fails.
QueueRecvErr(s) ==
    /\ lpc # "exited"
    /\ sessions[s].pc = "loop"
    /\ sessions[s].queue # <<>>
    /\ sessions' = [sessions EXCEPT ![s].queue = Tail(@), ![s].pc = "cleanup",
                                    ![s].exit = "error", ![s].idle = 0,
                                    ![s].quiet = 0]
    /\ UNCHANGED listenerVars
    /\ UNCHANGED <<connections, lock, recvCount, backendSent, forwarded, clientSent>>
    /\ UNCHANGED classifyVars

\* The sleep of this loop iteration completes.
Timeout(s) ==
    /\ lpc # "exited"
    /\ sessions[s].pc = "loop"
    /\ sessions[s].idle >= CONNECTION_TIMEOUT_SECS
    /\ LeaveLoop(s, "timeout")
    /\ UNCHANGED listenerVars
    /\ UNCHANGED <<connections, lock, recvCount, backendSent, forwarded, clientSent>>
    /\ UNCHANGED classifyVars

\* Mutant: the task ends without removing its key.
TaskRemove_skip(s) ==
    /\ lpc # "exited"
    /\ sessions[s].pc = "cleanup"
    /\ lock = "free"
    /\ sessions' = [sessions EXCEPT ![s].pc = "removed"]
    /\ UNCHANGED listenerVars
    /\ UNCHANGED <<connections, lock, recvCount, backendSent, forwarded, clientSent>>
    /\ UNCHANGED classifyVars

\* connections_clone.lock().await.remove(&(addr, packet_type))
TaskRemove(s) ==
    /\ lpc # "exited"
    /\ sessions[s].pc = "cleanup"
    /\ lock = "free"
    /\ connections' = connections_remove(connections, SessionKey(s))
    /\ sessions' = [sessions EXCEPT ![s].pc = "removed"]
    /\ UNCHANGED listenerVars
    /\ UNCHANGED <<lock, recvCount, backendSent, forwarded, clientSent>>
    /\ UNCHANGED classifyVars

\* The task's future completes: rx (with what is still queued) and
\* forward_sock are dropped.
TaskEnd(s) ==
    /\ lpc # "exited"
    /\ sessions[s].pc = "removed"
    /\ sessions' = [sessions EXCEPT ![s].pc = "done", ![s].queue = <<>>,
                                    ![s].sock = "none"]
    /\ UNCHANGED listenerVars
    /\ UNCHANGED <<connections, lock, recvCount, backendSent, forwarded, clientSent>>
    /\ UNCHANGED classifyVars

\* TickSecs seconds pass: the sleep of every task in its loop gets nearer.
Tick ==
    /\ lpc # "exited"
    /\ \E s \in SessionIds :
         sessions[s].pc = "loop" /\ sessions[s].idle < CONNECTION_TIMEOUT_SECS
    /\ sessions' = [s \in SessionIds |->
                      IF sessions[s].pc = "loop"
                      THEN [sessions[s] EXCEPT !.idle = advance(@),
                                               !.quiet = advance(@)]
                      ELSE sessions[s]]
    /\ UNCHANGED listenerVars
    /\ UNCHANGED <<connections, lock, recvCount, backendSent, forwarded, clientSent>>
    /\ UNCHANGED classifyVars

\* The steps the listener takes while it holds the lock.
LockedStep ==
    \/ BindOk \/ BindErr
    \/ ConnectOk \/ ConnectErr
    \/ SendFirstOk \/ SendFirstErr
    \/ Spawn

Listener ==
    \/ RecvFromOk
    \/ RecvFromErr
    \/ Lookup
    \/ EnqueueOk
    \/ EnqueueErr
    \/ RemoveFailed
    \/ Insert
    \/ BindOk
    \/ BindErr
    \/ ConnectOk
    \/ ConnectErr
    \/ SendFirstOk
    \/ SendFirstErr
    \/ Spawn

Task(s) ==
    \/ BackendRecvOk(s)
    \/ BackendRecvSendErr(s)
    \/ BackendRecvErr(s)
    \/ QueueRecvOk(s)
    \/ QueueRecvErr(s)
    \/ Timeout(s)
    \/ TaskRemove(s)
    \/ TaskEnd(s)

Next ==
    \/ Listener
    \/ \E s \in SessionIds : Task(s)
    \/ Tick

Spec == Init /\ [][Next]_vars

\* The proxy under a burst: the same listener and tasks, the datagrams all
\* of one key.
ListenerBurst ==
    \/ RecvFromBurst
    \/ RecvFromErr
    \/ Lookup
    \/ EnqueueOk
    \/ EnqueueErr
    \/ RemoveFailed
    \/ Insert
    \/ BindOk
    \/ BindErr
    \/ ConnectOk
    \/ ConnectErr
    \/ SendFirstOk
    \/ SendFirstErr
    \/ Spawn

NextBurst ==
    \/ ListenerBurst
    \/ \E s \in SessionIds : Task(s)
    \/ Tick

SpecBurst == Init /\ [][NextBurst]_vars

\* The listener's send completes once the channel has a free slot or the
\* receiver is gone; select! polls its branches in random order, so a task
\* in its loop with a queued datagram takes it (or leaves the loop); a
\* task that waits for the lock gets it (FIFO Mutex); a task that has
\* removed its key completes.
FairnessBurst ==
    /\ WF_vars(LockedStep)
    /\ WF_vars(EnqueueOk \/ EnqueueErr)
    /\ \A s \in 1..MaxBurst :
          /\ WF_vars(s \in SessionIds /\ (QueueRecvOk(s) \/ QueueRecvErr(s)))
          /\ SF_vars(s \in SessionIds /\ TaskRemove(s))
          /\ WF_vars(s \in SessionIds /\ TaskEnd(s))

FairSpecBurst == SpecBurst /\ FairnessBurst

\* The socket operations the listener awaits while it holds the lock
\* complete, and the tokio Mutex hands the lock to its waiters in FIFO
\* order, so a task that waits for the lock gets it.
Fairness ==
    /\ WF_vars(LockedStep)
    /\ \A s \in 1..MaxRecv : SF_vars(s \in SessionIds /\ TaskRemove(s))

FairSpec == Spec /\ Fairness

TypeOK ==
    /\ lpc \in {"recv", "lookup", "enqueue", "remove_failed", "insert", "bind",
                "connect", "send_first", "spawn", "exited"}
    /\ lock \in {"free", "main"}
    /\ Len(sessions) <= recvCount
    /\ \A s \in SessionIds :
         /\ sessions[s].pc \in {"creating", "loop", "cleanup", "removed",
                                "done", "cancelled"}
         /\ Len(sessions[s].queue) <= ChannelCapacity
    /\ \A k \in DOMAIN connections : connections[k] \in SessionIds

(***************************************************************************)
(* Properties of the classifier (checked under SpecClassify).              *)
(***************************************************************************)
\* The header the specification calls ProtocolA: at least 4 bytes, the
\* first in 1..4, the next three 0.
WireguardHeader(b) ==
    /\ Len(b) >= 4
    /\ b[1] \in 1..4
    /\ \A i \in 2..4 : b[i] = 0

SameHeader(b) ==
    {Pad(SubSeq(b, 1, 4), n, f) : n \in TotalLens, f \in FillVals}

\* C2: for a buffer of length >= 4 the tag depends on bytes 0..3 only:
\* every buffer with the same first four bytes gets the same tag, whatever
\* its length, its trailing bytes and the source address are.
C2_TagIndependentOfLength ==
    (cpc = "ret" /\ Len(cbuf) >= 4) =>
        \A b \in SameHeader(cbuf), a \in Addrs :
            determine_packet_type(b, a) = ctag

\* Two buffers with one header whose logged sub-classification differs.
C2_Witness ==
    /\ cpc = "ret"
    /\ ctag = "Wireguard"
    /\ Len(cbuf) = 148
    /\ clog = "Handshake Initiation"
    /\ \E b \in SameHeader(cbuf) :
         /\ determine_packet_type_log(b) = "Unknown type"
         /\ determine_packet_type(b, caddr) = "Wireguard"

(***************************************************************************)
(* Properties of the proxy (checked under Spec or FairSpec).               *)
(***************************************************************************)
\* A session that owns a forwarding socket or is about to, and whose task
\* has not left its relay loop.
Running(s) == sessions[s].pc \in {"creating", "loop"}

\* C3: per key there is at most one session that is being created or is in
\* its relay loop.
C3_OneSessionPerKey ==
    \A s, t \in SessionIds :
        (Running(s) /\ Running(t) /\ sessions[s].key = sessions[t].key) => s = t

\* A second datagram for the key of a session in its loop was handed to
\* that session.
C3_Witness ==
    \E s \in SessionIds :
        /\ sessions[s].pc = "loop"
        /\ sessions[s].queue # <<>>
        /\ Len(sessions) = 1

\* Session s has left its relay loop because its sleep completed and has
\* not yet removed its key.
TimedOut(s) ==
    IF s \in SessionIds
    THEN sessions[s].exit = "timeout" /\ sessions[s].pc = "cleanup"
    ELSE FALSE

\* The registry does not contain the key of session s.
KeyAbsent(s) ==
    IF s \in SessionIds THEN sessions[s].key \notin DOMAIN connections ELSE FALSE

\* C4: a session that left its loop on the idle timeout leads to a state
\* where the registry does not contain its key.
C4_IdleSessionRemoved ==
    \A s \in 1..MaxRecv : TimedOut(s) ~> KeyAbsent(s)

\* The task of a timed-out session has removed its key and completed while
\* the listener runs.
C4_Witness ==
    /\ lpc # "exited"
    /\ \E s \in SessionIds :
         /\ sessions[s].exit = "timeout"
         /\ sessions[s].pc = "done"
         /\ sessions[s].key \notin DOMAIN connections

\* C5: an error of recv_from leaves the listener running and every session
\* registered.
C5_RecvErrorKeepsListener ==
    [][(mainError' = "recv_from" /\ mainError # "recv_from") =>
          /\ lpc' # "exited"
          /\ connections' = connections]_vars

\* A session of s met an I/O error in this step.
SessionErrorStep(s) ==
    sessions[s].exit = "none" /\ sessions'[s].exit = "error"

\* C6: an I/O error of one session, during its creation or in its loop,
\* leaves the listener running and every other session as it was and
\* registered.
C6_SessionErrorIsLocal ==
    [][\A s \in SessionIds :
          SessionErrorStep(s) =>
              /\ lpc' # "exited"
              /\ \A t \in SessionIds \ {s} : sessions'[t] = sessions[t]
              /\ \A k \in DOMAIN connections :
                    connections[k] # s =>
                        (k \in DOMAIN connections' /\ connections'[k] = connections[k])]_vars

\* C7: a datagram is only ever put into the queue of a session whose task
\* is in its relay loop.
C7_NoHandoffToExitedSession ==
    [][\A s \in SessionIds :
          Len(sessions'[s].queue) > Len(sessions[s].queue) =>
              sessions[s].pc = "loop"]_vars

\* The listener is handling a Quic datagram of the client of s, a registered
\* Wireguard session in its loop.
HandlingQuicOfClient(s) ==
    /\ sessions[s].pc = "loop"
    /\ sessions[s].key[2] = "Wireguard"
    /\ connections_get(connections, sessions[s].key) = s
    /\ lpc \notin {"recv", "exited"}
    /\ packet_type = "Quic"
    /\ addr = sessions[s].key[1]

\* C8: no step the listener takes for a Quic datagram of a client changes
\* the registry entry, queue, socket or lifecycle state of that client's
\* Wireguard session.
C8_OtherProtocolLeavesSession ==
    [][\A s \in SessionIds :
          (HandlingQuicOfClient(s) /\ lpc' # lpc) =>
              /\ sessions'[s] = sessions[s]
              /\ connections_get(connections', sessions[s].key) = s]_vars

\* C9: a datagram sent on the client-facing socket goes to the client
\* address of the key of the session whose forwarding socket received it.
C9_ReplyToOwnClient ==
    clientSent.sid # None =>
        /\ clientSent.sid \in SessionIds
        /\ clientSent.to = sessions[clientSent.sid].key[1]

\* A reply was relayed while sessions of two different clients were in
\* their loops.
C9_Witness ==
    /\ clientSent.sid # None
    /\ \E t \in SessionIds :
         /\ sessions[t].pc = "loop"
         /\ sessions[clientSent.sid].pc = "loop"
         /\ sessions[t].key[1] # sessions[clientSent.sid].key[1]

\* C10: a datagram sent on a forwarding socket is sent on a socket connected
\* to the backend of the datagram's own tag.
C10_BackendMatchesTag ==
    backendSent.sid # None =>
        /\ determine_packet_type(backendSent.data, "") = "Wireguard"
              => backendSent.backend = WIREGUARD_SERVER_ADDR
        /\ determine_packet_type(backendSent.data, "") = "Quic"
              => backendSent.backend = QUIC_SERVER_ADDR

\* A queued datagram was forwarded by a session task.
C10_Witness ==
    /\ backendSent.sid # None
    /\ backendSent.by = "task"
    /\ backendSent.backend = WIREGUARD_SERVER_ADDR

(***************************************************************************)
(* Ordering, removal and locking (checked under SpecBurst or Spec).        *)
(***************************************************************************)
\* C11: for every key the datagrams sent to the backend are sent in the
\* order of their receipt: each one sent was received later than the one
\* sent before it for that key, whether the listener sent it directly or a
\* task took it from its queue, and whichever session of the key sent it.
C11_PerKeyOrder ==
    [][\A k \in Keys :
          forwarded'[k] # forwarded[k] => forwarded'[k] > forwarded[k]]_vars

\* The second session of a key has forwarded a queued datagram after the
\* first session of the key forwarded datagrams of its own.
C11_Witness ==
    /\ Len(sessions) >= 2
    /\ sessions[1].key = sessions[2].key
    /\ backendSent.sid = 2
    /\ backendSent.by = "task"
    /\ forwarded[sessions[2].key] = backendSent.id

\* The keys a step deletes from the registry.
Deleted == (DOMAIN connections) \ (DOMAIN connections')

\* Session s performs its cleanup removal in this step.
TaskRemoveStep(s) ==
    sessions[s].pc = "cleanup" /\ sessions'[s].pc = "removed"

\* The listener performs its removal after a failed handoff in this step.
RemoveFailedStep ==
    lpc = "remove_failed" /\ lpc' = "recv"

\* C12: a removal deletes only the entry of the session it is made for:
\* the cleanup removal of a task only the task's own sender, the listener's
\* removal after a failed handoff only the sender the handoff used.
C12_RemovalOfOwnEntry ==
    [][/\ \A s \in SessionIds :
            TaskRemoveStep(s) => \A k \in Deleted : connections[k] = s
       /\ RemoveFailedStep => \A k \in Deleted : connections[k] = sender]_vars

\* A task has removed its own entry while another session stayed
\* registered.
C12_Witness ==
    \E s, t \in SessionIds :
        /\ s # t
        /\ sessions[s].pc = "removed"
        /\ sessions[s].key \notin DOMAIN connections
        /\ connections_get(connections, sessions[t].key) = t

\* C13: the registry lock is not held while a datagram is sent to a backend
\* or received from it.
C13_NoBackendIOUnderLock ==
    lock = "main" => lpc # "send_first"

HandoffBlocked ==
    /\ lpc = "enqueue"
    /\ RxAlive(sender)
    /\ Len(sessions[sender].queue) >= ChannelCapacity

\* C15: the handoff to an existing session completes without waiting, also
\* when the session's channel is full.
C15_HandoffNeverBlocks == ~HandoffBlocked

\* Session s takes the idle-timeout transition in this step.
TimeoutStep(s) ==
    sessions[s].exit = "none" /\ sessions'[s].exit = "timeout"

\* C16: a session takes the idle-timeout transition only when the whole
\* timeout has passed since it last relayed a backend datagram and since it
\* last forwarded a queued client datagram.
C16_TimeoutOnlyAfterQuietInterval ==
    [][\A s \in SessionIds :
          TimeoutStep(s) => sessions[s].quiet >= CONNECTION_TIMEOUT_SECS]_vars

\* A session that relayed a reply has later timed out.
C16_Witness ==
    \E s \in SessionIds :
        /\ sessions[s].exit = "timeout"
        /\ clientSent.sid = s

\* The registry maps the key of session s to the sender of s.
Registered(s) == connections_get(connections, sessions[s].key) = s

\* Registered(s) in the state a step leads to.
RegisteredNext(s) == connections_get(connections', sessions[s].key) = s

UnblockerEnabled ==
    \/ sessions[sender].pc = "loop" /\ sessions[sender].queue # <<>>
    \/ sessions[sender].pc = "cleanup" /\ lock = "free"
    \/ sessions[sender].pc = "removed"

\* The listener is at a lock() of its own.
AtLock == lpc \in {"lookup", "insert", "remove_failed"}

\* C18: the listener never waits for the lock while a task cannot release
\* it, and whenever it waits at a full channel a step of the session's task
\* that unblocks it is enabled, and it does get unblocked.
C18_NoDeadlock ==
    /\ [](AtLock => lock = "free")
    /\ [](HandoffBlocked => UnblockerEnabled)
    /\ (HandoffBlocked ~> ~HandoffBlocked)

\* The listener waits at the full channel of a session whose task has left
\* its loop and not yet removed its key.
C18_Witness ==
    /\ HandoffBlocked
    /\ sessions[sender].pc = "cleanup"

\* C19: a session whose task is in its loop is registered under its key,
\* and every entry of the registry is the sender of a session that is being
\* created, is in its loop or is about to remove its key, stored under that
\* session's key.
C19_NoOrphansNoDeadEntries ==
    /\ \A s \in SessionIds : sessions[s].pc = "loop" => Registered(s)
    /\ \A k \in DOMAIN connections :
         /\ connections[k] \in SessionIds
         /\ sessions[connections[k]].pc \in {"creating", "loop", "cleanup"}
         /\ sessions[connections[k]].key = k

\* One session is registered and in its loop while another one, registered
\* too, has left its loop and not yet removed its key.
C19_Witness ==
    \E s, t \in SessionIds :
        /\ sessions[s].pc = "loop" /\ Registered(s)
        /\ sessions[t].pc = "cleanup" /\ Registered(t)

====
